---- MODULE Spec2Model ----
(***************************************************************************)
(* Model of adafruit_cursorcontrol: the Cursor (cursorcontrol.py) and the  *)
(* CursorManager that drives it (cursorcontrol_cursormanager.py).          *)
(*                                                                         *)
(* The displayio collaborator is modelled by what the calls made by the    *)
(* Cursor do: Group.append raises ValueError when the layer already is in  *)
(* a group, Group.remove raises ValueError when the layer is not a member, *)
(* and a new Group starts at x = 0, y = 0.                                 *)
(*                                                                         *)
(* The keypad collaborator queues one event per key transition until the   *)
(* pad is deinitialized; events.get_into(event) fetches the oldest event   *)
(* and raises TypeError when event is None.                                *)
(*                                                                         *)
(* The adafruit_debouncer collaborator: Debouncer.update() clears its      *)
(* changed flag, restarts its timer when the reading differs from the      *)
(* unstable state, and otherwise, once the timer has reached the interval, *)
(* takes a reading that differs from the debounced state as the new        *)
(* debounced state and sets the changed flag; rose and fell are the        *)
(* changed flag with the debounced state set and clear.                    *)
(***************************************************************************)
EXTENDS Integers, Sequences, FiniteSets, TLC

\* ---------------------------------------------------------------- bounds
\* widest display of the model
MaxW == 3
\* tallest display of the model
MaxH == 2
\* largest speed constructed or assigned
MaxSpeed == 2
\* largest scale constructed or assigned
MaxScale == 2
\* largest coordinate assigned through x / y
MaxVal == 4
\* bitmaps are 0 (the default glyph) .. MaxBmp
MaxBmp == 1
\* layer groups generate_cursor may create in one run
MaxGroups == 2
\* key events queued and not yet fetched
MaxQueue == 2
\* buttons physically held at the same time
MaxHeld == 2
\* debounce_interval of a DebouncedCursorManager, in clock ticks
debounce_interval == 2

\* ------------------------------------------------------ program constants
PYBADGE_BUTTON_LEFT == 7
PYBADGE_BUTTON_UP == 6
PYBADGE_BUTTON_DOWN == 5
PYBADGE_BUTTON_RIGHT == 4
PYBADGE_BUTTON_SELECT == 3
PYBADGE_BUTTON_START == 2
PYBADGE_BUTTON_A == 1
PYBADGE_BUTTON_B == 0
KeyCount == 8
Deadzone == 1000
Samples == 3
AdcRest == 32768
None == -1

VARIABLES
    disp_sz,            \* _disp_sz = <<height - 1, width - 1>>
    scale,              \* _scale, None once deinitialized
    speed,              \* _speed
    is_hidden,          \* _is_hidden
    cursor_grp,         \* _cursor_grp: identity of the cursor's layer group
    grp_x, grp_y,       \* _cursor_grp.x, _cursor_grp.y
    grp_scale,          \* _cursor_grp.scale
    cursor_grp_tiles,   \* the tiles held by _cursor_grp (by bitmap)
    cur_sprite,         \* _cur_sprite (by bitmap)
    cursor_bitmap,      \* _cursor_bitmap
    display_grp,        \* _display_grp: the layers of the display group
    board,              \* "dpad" (BUTTON_CLOCK only) or "joystick" (JOYSTICK_X)
    center_x, center_y, \* _center_x, _center_y
    pad_states,         \* _pad_states
    events,             \* _pad.events: queued key events
    phys,               \* buttons physically held
    is_clicked, is_alt_clicked, is_select_clicked, is_start_clicked,
    mgr_cursor,         \* the manager's _cursor: "cursor", or "None" once deinitialized
    mgr_event,          \* the manager's _event: "event", or "None" once deinitialized
    pad_live,           \* _pad has not been deinitialized
    debounced,          \* the manager is a DebouncedCursorManager
    debouncers,         \* _debouncers, by the key each one samples
    a_stable,           \* ticks since button A last changed, up to debounce_interval
    all_short,          \* no stable period of button A has reached debounce_interval
    pc,                 \* the statement a cursor_bitmap assignment has reached
    op,                 \* the operation the caller invoked last
    err,                \* the exception it raised, "none" if it returned
    joystick_live,      \* _joystick_x and _joystick_y have been created
    btns,               \* _btns of the button-aware manager: its targets
    btn_clicked,        \* its _btn_clicked: an index into _btns, or None
    is_held,            \* its _is_held
    selected,           \* the selected attribute of each target
    ret,                \* what its update() returned last: an index, or None
    pressed,            \* what _pad.get_pressed() gave that update()
    glyph,              \* the bitmap _default_cursor_bitmap() is drawing
    glyph_pc,           \* the statement it has reached, with its loop counters
    twin_states,        \* _pad_states of a CursorManager run side by side
    twin_x, twin_y,     \* the position of the equal cursor that manager moves
    twin_err            \* what that manager's update() raised last

cursorVars == <<disp_sz, scale, speed, is_hidden, cursor_grp, grp_x, grp_y,
                grp_scale, cursor_grp_tiles, cur_sprite, cursor_bitmap,
                display_grp>>
clickVars == <<is_clicked, is_alt_clicked, is_select_clicked, is_start_clicked>>
deinitVars == <<mgr_cursor, mgr_event, pad_live>>
debounceVars == <<debounced, debouncers, a_stable, all_short>>
managerVars == <<board, center_x, center_y, pad_states, events, phys,
                 is_clicked, is_alt_clicked, is_select_clicked,
                 is_start_clicked, deinitVars, debounceVars>>
buttonVars == <<btns, btn_clicked, is_held, selected, ret, pressed>>
glyphVars == <<glyph, glyph_pc>>
twinVars == <<twin_states, twin_x, twin_y, twin_err>>
otherVars == <<joystick_live, buttonVars, glyphVars, twinVars>>
vars == <<disp_sz, scale, speed, is_hidden, cursor_grp, grp_x, grp_y,
          grp_scale, cursor_grp_tiles, cur_sprite, cursor_bitmap,
          display_grp, board, center_x, center_y, pad_states, events, phys,
          is_clicked, is_alt_clicked, is_select_clicked, is_start_clicked,
          mgr_cursor, mgr_event, pad_live, debounced, debouncers, a_stable,
          all_short, pc, op, err, joystick_live, btns, btn_clicked, is_held,
          selected, ret, pressed, glyph, glyph_pc, twin_states, twin_x,
          twin_y, twin_err>>

\* the displays a Cursor is built on: the smallest one and the largest one
DisplaySizes == {[width |-> 1, height |-> 1], [width |-> MaxW, height |-> MaxH]}
Bitmaps == 0..MaxBmp
Keys == 0..(KeyCount - 1)
Values == (0 - 2)..MaxVal
Speeds == (0 - 1)..MaxSpeed
Scales == (0 - 1)..MaxScale

\* ------------------------------------------------------------- displayio
Range(s) == {s[i] : i \in 1..Len(s)}

Count(s, e) == Cardinality({i \in 1..Len(s) : s[i] = e})

RemoveAt(s, i) == [j \in 1..(Len(s) - 1) |-> IF j < i THEN s[j] ELSE s[j + 1]]

IndexOf(s, e) == CHOOSE i \in 1..Len(s) : s[i] = e /\ \A j \in 1..(i - 1) : s[j] # e

\* Group.append(layer): a layer that already is in a group is refused
GroupAppend(grp, layer) ==
    IF layer \in Range(grp)
    THEN [grp |-> grp, err |-> "in_group"]
    ELSE [grp |-> Append(grp, layer), err |-> "none"]

\* Group.remove(layer): a layer that is not a member is an error
GroupRemove(grp, layer) ==
    IF layer \in Range(grp)
    THEN [grp |-> RemoveAt(grp, IndexOf(grp, layer)), err |-> "none"]
    ELSE [grp |-> grp, err |-> "not_found"]

\* ---------------------------------------------------------------- Cursor
\* Cursor._is_deinited raises when _scale is None
IsDeinited == scale = None

\* XSetter clipping to the edge instead of rejecting
XSetter_Clip(cur, x_val, limit, hidden) ==
    IF x_val < 0 /\ ~hidden THEN 0
    ELSE IF x_val > limit /\ ~hidden THEN limit
    ELSE IF ~hidden THEN x_val
    ELSE cur

\* XSetter without the upper bound test
XSetter_NoUpper(cur, x_val, limit, hidden) ==
    IF x_val < 0 /\ ~hidden THEN cur
    ELSE IF ~hidden THEN x_val
    ELSE cur

\* the value _cursor_grp.x holds after `cursor.x = x_val`
XSetter(cur, x_val, limit, hidden) ==
    IF x_val < 0 /\ ~hidden THEN cur
    ELSE IF x_val > limit /\ ~hidden THEN cur
    ELSE IF ~hidden THEN x_val
    ELSE cur

\* YSetter clipping to the edge instead of rejecting
YSetter_Clip(cur, y_val, limit, hidden) ==
    IF y_val < 0 /\ ~hidden THEN 0
    ELSE IF y_val > limit /\ ~hidden THEN limit
    ELSE IF ~hidden THEN y_val
    ELSE cur

\* YSetter without the tests of _is_hidden
YSetter_MovesHidden(cur, y_val, limit, hidden) ==
    IF y_val < 0 THEN cur
    ELSE IF y_val > limit THEN cur
    ELSE y_val

\* the value _cursor_grp.y holds after `cursor.y = y_val`
YSetter(cur, y_val, limit, hidden) ==
    IF y_val < 0 /\ ~hidden THEN cur
    ELSE IF y_val > limit /\ ~hidden THEN cur
    ELSE IF ~hidden THEN y_val
    ELSE cur

\* SpeedSetter accepting zero
SpeedSetter_AcceptZero(cur, s) == IF s >= 0 THEN s ELSE cur

\* the value _speed holds after `cursor.speed = s`
SpeedSetter(cur, s) == IF s > 0 THEN s ELSE cur

\* ScaleSetter that leaves the layer's scale alone
ScaleSetter_FieldOnly(cur, layer, s) ==
    IF s > 0 THEN [scale |-> s, grp_scale |-> layer]
    ELSE [scale |-> cur, grp_scale |-> layer]

\* _scale and _cursor_grp.scale after `cursor.scale = s`
ScaleSetter(cur, layer, s) ==
    IF s > 0 THEN [scale |-> s, grp_scale |-> s]
    ELSE [scale |-> cur, grp_scale |-> layer]

\* the hidden setter detaching the layer on show as well
HiddenSetter_AlwaysRemove(grp, layer, hide_it) == GroupRemove(grp, layer)

\* the hidden setter: the flag is written first, then the display group
HiddenSetter(grp, layer, hide_it) ==
    IF hide_it THEN GroupRemove(grp, layer) ELSE GroupAppend(grp, layer)

\* Cursor.deinit leaving the layer in the display group
DeinitRemove_NoDetach(grp, layer) == [grp |-> grp, err |-> "none"]

\* Cursor.deinit past its _is_deinited check
DeinitRemove(grp, layer) == GroupRemove(grp, layer)

\* ---------------------------------------------------------- CursorManager
Pow2(k) == IF k = 0 THEN 1 ELSE IF k = 1 THEN 2 ELSE IF k = 2 THEN 4
           ELSE IF k = 3 THEN 8 ELSE IF k = 4 THEN 16 ELSE IF k = 5 THEN 32
           ELSE IF k = 6 THEN 64 ELSE 128

\* (states >> k) & 1
Bit(states, k) == (states \div Pow2(k)) % 2

\* states & (1 << k), as a truth value
Held(states, k) == Bit(states, k) = 1

\* StoreButtonStates that records presses only
StoreButtonStates_PressOnly(states, ev) ==
    IF ev.pressed /\ Bit(states, ev.key_number) = 0
    THEN states + Pow2(ev.key_number)
    ELSE states

\* CursorManager._store_button_states for the event just fetched
StoreButtonStates(states, ev) ==
    IF Bit(states, ev.key_number) # (IF ev.pressed THEN 1 ELSE 0)
    THEN IF Bit(states, ev.key_number) = 1
         THEN states - Pow2(ev.key_number)
         ELSE states + Pow2(ev.key_number)
    ELSE states

\* ClickFlag that is not cleared on the call after it was set
ClickFlag_Sticky(flag, states, k) == Held(states, k)

\* one click flag of update(): cleared when set, else set while held
ClickFlag(flag, states, k) ==
    IF flag THEN FALSE ELSE Held(states, k)

\* the readings AnalogIn.value may give around the centre
JoySamples(c) == {c - Deadzone - 1, c - Deadzone, c + Deadzone, c + Deadzone + 1}

\* Samples times the average _read_joystick_x/_y returns
JoySums(c) == {a + b + d : a \in JoySamples(c), b \in JoySamples(c), d \in JoySamples(c)}

\* JoyStep with both thresholds outside the deadzone
JoyStep_Inclusive(sum, c, spd) ==
    IF sum >= Samples * (c + Deadzone) THEN spd
    ELSE IF sum <= Samples * (c - Deadzone) THEN 0 - spd
    ELSE 0

\* the step _check_cursor_movement asks for on one joystick axis
JoyStep(sum, c, spd) ==
    IF sum > Samples * (c + Deadzone) THEN spd
    ELSE IF sum < Samples * (c - Deadzone) THEN 0 - spd
    ELSE 0

\* the steps one joystick axis can ask for, over the readings it may give
JoySteps(c, spd) == {JoyStep(sum, c, spd) : sum \in JoySums(c)}

\* PadStepX testing left before right
PadStepX_LeftFirst(states, spd) ==
    IF Held(states, PYBADGE_BUTTON_LEFT) THEN 0 - spd
    ELSE IF Held(states, PYBADGE_BUTTON_RIGHT) THEN spd
    ELSE 0

\* the step _check_cursor_movement asks for on the D-pad x axis
PadStepX(states, spd) ==
    IF Held(states, PYBADGE_BUTTON_RIGHT) THEN spd
    ELSE IF Held(states, PYBADGE_BUTTON_LEFT) THEN 0 - spd
    ELSE 0

\* the step _check_cursor_movement asks for on the D-pad y axis
PadStepY(states, spd) ==
    IF Held(states, PYBADGE_BUTTON_UP) THEN 0 - spd
    ELSE IF Held(states, PYBADGE_BUTTON_DOWN) THEN spd
    ELSE 0

\* CursorManager._is_deinited raises when _cursor is None
ManagerIsDeinited == mgr_cursor = "None"

\* the keys of _pad_btns, as _init_hardware fills it for the board
PadBtns(b) ==
    IF b = "dpad"
    THEN {PYBADGE_BUTTON_LEFT, PYBADGE_BUTTON_RIGHT, PYBADGE_BUTTON_UP,
          PYBADGE_BUTTON_DOWN, PYBADGE_BUTTON_A, PYBADGE_BUTTON_B,
          PYBADGE_BUTTON_SELECT, PYBADGE_BUTTON_START}
    ELSE {PYBADGE_BUTTON_A, PYBADGE_BUTTON_B, PYBADGE_BUTTON_SELECT,
          PYBADGE_BUTTON_START}

\* ------------------------------------------------- DebouncedCursorManager
\* a Debouncer built while its button reads not pressed; age is the time
\* since _last_bounce_ticks, counted up to debounce_interval
NewDebouncer ==
    [unstable |-> FALSE, debounced |-> FALSE, changed |-> FALSE,
     age |-> debounce_interval]

\* _debouncers as DebouncedCursorManager.__init__ builds it; a plain
\* CursorManager has none
NewDebouncers(b, deb) ==
    IF deb THEN [k \in PadBtns(b) |-> NewDebouncer] ELSE [k \in {} |-> NewDebouncer]

\* Debouncer.update() for the reading current of the debouncer's function
DebouncerUpdate(d, current) ==
    IF current # d.unstable
    THEN [unstable |-> current, debounced |-> d.debounced, changed |-> FALSE,
          age |-> 0]
    ELSE IF d.age >= debounce_interval /\ current # d.debounced
         THEN [unstable |-> d.unstable, debounced |-> current, changed |-> TRUE,
               age |-> 0]
         ELSE [d EXCEPT !.changed = FALSE]

\* Debouncer.rose
Rose(d) == d.debounced /\ d.changed

\* Debouncer.fell
Fell(d) == ~d.debounced /\ d.changed

\* one tick of the clock, for a capped timer
Older(t) == IF t < debounce_interval THEN t + 1 ELSE t

\* ------------------------------------------------------------------ Init
\* the boards CursorManager can be built on: "dpad" has BUTTON_CLOCK only,
\* "joystick" has JOYSTICK_X and BUTTON_CLOCK
Boards == {"dpad", "joystick"}

\* every board: "joystick_only" has JOYSTICK_X without the button shift
\* register, "none" has neither
AllBoards == Boards \cup {"joystick_only", "none"}

\* hasattr(board, "BUTTON_CLOCK")
HasClock(b) == b \in {"dpad", "joystick"}

\* hasattr(board, "JOYSTICK_X")
HasJoystick(b) == b \in {"joystick", "joystick_only"}

\* the AnalogIn objects created only after the shift register
JoystickCreated_AfterPad(b) == HasJoystick(b) /\ HasClock(b)

\* _init_hardware: the AnalogIn objects exist once the joystick branch ran
JoystickCreated(b) == HasJoystick(b) /\ ~(HasClock(b) /\ ~HasJoystick(b))

\* _init_hardware: the ShiftRegisterKeys object exists once a branch ran and
\* board.BUTTON_CLOCK could be read
PadCreated(b) == (HasClock(b) \/ HasJoystick(b)) /\ HasClock(b)

\* _init_hardware: what it raises
InitHardwareError(b) ==
    IF (HasClock(b) /\ ~HasJoystick(b)) \/ HasJoystick(b)
    THEN IF HasClock(b) THEN "none" ELSE "attribute_error"
    ELSE "attribute_error"

\* a Cursor on one of the displays and a manager on one of the boards
ConstructOn(displays, boards) ==
    /\ \E d \in displays : disp_sz = <<d.height - 1, d.width - 1>>
    /\ scale \in 1..MaxScale
    /\ speed \in 1..MaxSpeed
    /\ is_hidden \in BOOLEAN
    /\ cursor_bitmap = 0
    /\ cur_sprite = cursor_bitmap
    /\ cursor_grp = 1
    /\ grp_x = 0
    /\ grp_y = 0
    /\ grp_scale = scale
    /\ cursor_grp_tiles = <<cur_sprite>>
    /\ display_grp = <<cursor_grp>>
    /\ board \in boards
    /\ center_x = IF HasJoystick(board) THEN AdcRest ELSE 0
    /\ center_y = IF HasJoystick(board) THEN AdcRest ELSE 0
    /\ joystick_live = JoystickCreated(board)
    /\ pad_states = 0
    /\ events = <<>>
    /\ phys = {}
    /\ is_clicked = FALSE
    /\ is_alt_clicked = FALSE
    /\ is_select_clicked = FALSE
    /\ is_start_clicked = FALSE
    /\ mgr_cursor = "cursor"
    /\ mgr_event = "event"
    /\ pad_live = PadCreated(board)
    /\ debouncers = NewDebouncers(board, debounced /\ PadCreated(board))
    /\ a_stable = 0
    /\ all_short = TRUE
    /\ pc = "idle"
    /\ op = "init"
    /\ err = InitHardwareError(board)

\* no button-aware manager has been built
NoButtons ==
    /\ btns = <<>>
    /\ btn_clicked = None
    /\ is_held = FALSE
    /\ selected = <<>>
    /\ ret = None
    /\ pressed = 0

\* no call of _default_cursor_bitmap() is under way
NoGlyph ==
    /\ glyph = <<>>
    /\ glyph_pc = <<"idle", 0, 0>>

\* a second CursorManager as constructed, on a cursor of its own at (0, 0)
TwinStart ==
    /\ twin_states = 0
    /\ twin_x = 0
    /\ twin_y = 0
    /\ twin_err = "none"

\* a Cursor on a display with pixels and a manager on a board with the button
\* shift register
Construct ==
    ConstructOn(DisplaySizes, Boards) /\ NoButtons /\ NoGlyph /\ TwinStart

\* a Cursor and the CursorManager built on it
Init == debounced = FALSE /\ Construct

\* a Cursor and the CursorManager or DebouncedCursorManager built on it
InitManagers == debounced \in BOOLEAN /\ Construct

\* --------------------------------------------------------- Cursor actions
Raise(name) ==
    /\ op' = name
    /\ err' = "deinited"
    /\ UNCHANGED cursorVars
    /\ UNCHANGED <<managerVars, pc>>
    /\ UNCHANGED otherVars

x_setter(x_val) ==
    IF IsDeinited THEN Raise("x")
    ELSE /\ grp_x' = XSetter(grp_x, x_val, disp_sz[2], is_hidden)
         /\ op' = "x"
         /\ err' = "none"
         /\ UNCHANGED <<disp_sz, scale, speed, is_hidden, cursor_grp, grp_y,
                        grp_scale, cursor_grp_tiles, cur_sprite,
                        cursor_bitmap, display_grp>>
         /\ UNCHANGED <<managerVars, pc>>
         /\ UNCHANGED otherVars

y_setter(y_val) ==
    IF IsDeinited THEN Raise("y")
    ELSE /\ grp_y' = YSetter(grp_y, y_val, disp_sz[1], is_hidden)
         /\ op' = "y"
         /\ err' = "none"
         /\ UNCHANGED <<disp_sz, scale, speed, is_hidden, cursor_grp, grp_x,
                        grp_scale, cursor_grp_tiles, cur_sprite,
                        cursor_bitmap, display_grp>>
         /\ UNCHANGED <<managerVars, pc>>
         /\ UNCHANGED otherVars

speed_setter(s) ==
    IF IsDeinited THEN Raise("speed")
    ELSE /\ speed' = SpeedSetter(speed, s)
         /\ op' = "speed"
         /\ err' = "none"
         /\ UNCHANGED <<disp_sz, scale, is_hidden, cursor_grp, grp_x, grp_y,
                        grp_scale, cursor_grp_tiles, cur_sprite,
                        cursor_bitmap, display_grp>>
         /\ UNCHANGED <<managerVars, pc>>
         /\ UNCHANGED otherVars

scale_setter(s) ==
    IF IsDeinited THEN Raise("scale")
    ELSE /\ scale' = ScaleSetter(scale, grp_scale, s).scale
         /\ grp_scale' = ScaleSetter(scale, grp_scale, s).grp_scale
         /\ op' = "scale"
         /\ err' = "none"
         /\ UNCHANGED <<disp_sz, speed, is_hidden, cursor_grp, grp_x, grp_y,
                        cursor_grp_tiles, cur_sprite, cursor_bitmap,
                        display_grp>>
         /\ UNCHANGED <<managerVars, pc>>
         /\ UNCHANGED otherVars

hidden_setter(name, hide_it) ==
    IF IsDeinited THEN Raise(name)
    ELSE LET r == HiddenSetter(display_grp, cursor_grp, hide_it) IN
         /\ is_hidden' = hide_it
         /\ display_grp' = r.grp
         /\ op' = name
         /\ err' = r.err
         /\ UNCHANGED <<disp_sz, scale, speed, cursor_grp, grp_x, grp_y,
                        grp_scale, cursor_grp_tiles, cur_sprite, cursor_bitmap>>
         /\ UNCHANGED <<managerVars, pc>>
         /\ UNCHANGED otherVars

hide == hidden_setter("hide", TRUE)

show == hidden_setter("show", FALSE)

deinit ==
    IF IsDeinited THEN Raise("deinit")
    ELSE LET r == DeinitRemove(display_grp, cursor_grp) IN
         /\ scale' = None
         /\ display_grp' = r.grp
         /\ op' = "deinit"
         /\ err' = r.err
         /\ UNCHANGED <<disp_sz, speed, is_hidden, cursor_grp, grp_x, grp_y,
                        grp_scale, cursor_grp_tiles, cur_sprite, cursor_bitmap>>
         /\ UNCHANGED <<managerVars, pc>>
         /\ UNCHANGED otherVars

\* the cursor_bitmap setter has no _is_deinited check
cursor_bitmap_setter(bmp) ==
    LET r == GroupRemove(cursor_grp_tiles, cur_sprite) IN
    /\ cursor_bitmap' = bmp
    /\ IF r.err = "none"
       THEN /\ cur_sprite' = bmp
            /\ cursor_grp_tiles' = Append(r.grp, bmp)
       ELSE UNCHANGED <<cur_sprite, cursor_grp_tiles>>
    /\ op' = "cursor_bitmap"
    /\ err' = r.err
    /\ UNCHANGED <<disp_sz, scale, speed, is_hidden, cursor_grp, grp_x,
                   grp_y, grp_scale, display_grp>>
    /\ UNCHANGED <<managerVars, pc>>
    /\ UNCHANGED otherVars

\* the old tile left in the cursor's group
SpriteRemove_Kept(tiles, sprite) == [grp |-> tiles, err |-> "none"]

\* _cursor_grp.remove(_cur_sprite) of the cursor_bitmap setter
SpriteRemove(tiles, sprite) == GroupRemove(tiles, sprite)

\* the cursor_bitmap setter statement by statement, as a display refresh
\* running between two statements sees it: _cursor_bitmap = bmp
cursor_bitmap_store(bmp) ==
    /\ pc = "idle"
    /\ cursor_bitmap' = bmp
    /\ pc' = "remove"
    /\ op' = "cursor_bitmap"
    /\ err' = "none"
    /\ UNCHANGED <<disp_sz, scale, speed, is_hidden, cursor_grp, grp_x, grp_y,
                   grp_scale, cursor_grp_tiles, cur_sprite, display_grp>>
    /\ UNCHANGED managerVars
    /\ UNCHANGED otherVars

\* _cursor_grp.remove(_cur_sprite)
cursor_bitmap_remove ==
    /\ pc = "remove"
    /\ LET r == SpriteRemove(cursor_grp_tiles, cur_sprite) IN
           /\ cursor_grp_tiles' = r.grp
           /\ err' = r.err
           /\ pc' = IF r.err = "none" THEN "tilegrid" ELSE "idle"
    /\ UNCHANGED <<disp_sz, scale, speed, is_hidden, cursor_grp, grp_x, grp_y,
                   grp_scale, cur_sprite, cursor_bitmap, display_grp, op>>
    /\ UNCHANGED managerVars
    /\ UNCHANGED otherVars

\* _cur_sprite = displayio.TileGrid(bmp, ...)
cursor_bitmap_tilegrid ==
    /\ pc = "tilegrid"
    /\ cur_sprite' = cursor_bitmap
    /\ pc' = "append"
    /\ UNCHANGED <<disp_sz, scale, speed, is_hidden, cursor_grp, grp_x, grp_y,
                   grp_scale, cursor_grp_tiles, cursor_bitmap, display_grp,
                   op, err>>
    /\ UNCHANGED managerVars
    /\ UNCHANGED otherVars

\* _cursor_grp.append(_cur_sprite)
cursor_bitmap_append ==
    /\ pc = "append"
    /\ cursor_grp_tiles' = Append(cursor_grp_tiles, cur_sprite)
    /\ pc' = "idle"
    /\ UNCHANGED <<disp_sz, scale, speed, is_hidden, cursor_grp, grp_x, grp_y,
                   grp_scale, cur_sprite, cursor_bitmap, display_grp, op, err>>
    /\ UNCHANGED managerVars
    /\ UNCHANGED otherVars

generate_cursor(bmp) ==
    IF IsDeinited THEN Raise("generate_cursor")
    ELSE /\ cursor_grp < MaxGroups
         /\ cursor_grp' = cursor_grp + 1
         /\ grp_x' = 0
         /\ grp_y' = 0
         /\ grp_scale' = scale
         /\ cur_sprite' = bmp
         /\ cursor_grp_tiles' = <<bmp>>
         /\ display_grp' = Append(display_grp, cursor_grp + 1)
         /\ op' = "generate_cursor"
         /\ err' = "none"
         /\ UNCHANGED <<disp_sz, scale, speed, is_hidden, cursor_bitmap>>
         /\ UNCHANGED <<managerVars, pc>>
         /\ UNCHANGED otherVars

\* ------------------------------------------------------------ key events
\* the buttons wired to the shift register of the board
BoardKeys ==
    IF board = "dpad" THEN Keys
    ELSE {PYBADGE_BUTTON_B, PYBADGE_BUTTON_A, PYBADGE_BUTTON_START,
          PYBADGE_BUTTON_SELECT}

\* the D-pad directions
DirectionKeys == {PYBADGE_BUTTON_LEFT, PYBADGE_BUTTON_UP, PYBADGE_BUTTON_DOWN,
                  PYBADGE_BUTTON_RIGHT}

\* keypad queues one event per transition of a key
Enqueue(q, ev) == Append(q, ev)

KeyPressed(k) ==
    /\ k \in BoardKeys \ phys
    /\ Cardinality(phys) < MaxHeld
    /\ Len(events) < MaxQueue
    /\ phys' = phys \cup {k}
    /\ events' = IF pad_live
                  THEN Enqueue(events, [key_number |-> k, pressed |-> TRUE])
                  ELSE events
    /\ a_stable' = IF k = PYBADGE_BUTTON_A THEN 0 ELSE a_stable
    /\ UNCHANGED cursorVars
    /\ UNCHANGED <<board, center_x, center_y, pad_states, op, err>>
    /\ UNCHANGED clickVars
    /\ UNCHANGED <<deinitVars, debounced, debouncers, all_short, pc>>
    /\ UNCHANGED otherVars

KeyReleased(k) ==
    /\ k \in phys
    /\ Len(events) < MaxQueue
    /\ phys' = phys \ {k}
    /\ events' = IF pad_live
                  THEN Enqueue(events, [key_number |-> k, pressed |-> FALSE])
                  ELSE events
    /\ a_stable' = IF k = PYBADGE_BUTTON_A THEN 0 ELSE a_stable
    /\ UNCHANGED cursorVars
    /\ UNCHANGED <<board, center_x, center_y, pad_states, op, err>>
    /\ UNCHANGED clickVars
    /\ UNCHANGED <<deinitVars, debounced, debouncers, all_short, pc>>
    /\ UNCHANGED otherVars

\* ---------------------------------------------------------------- update
\* update() with the steps (dx, dy) _check_cursor_movement asks for; a step
\* of 0 calls no setter, any other step goes through Cursor.x / Cursor.y
UpdateWith(states, dx, dy) ==
    /\ pad_states' = states
    /\ events' = IF events # <<>> THEN Tail(events) ELSE events
    /\ op' = "update"
    /\ IF IsDeinited /\ (dx # 0 \/ dy # 0)
       THEN /\ err' = "deinited"
            /\ UNCHANGED <<grp_x, grp_y>>
            /\ UNCHANGED clickVars
       ELSE /\ err' = "none"
            /\ grp_x' = IF dx # 0 THEN XSetter(grp_x, grp_x + dx, disp_sz[2], is_hidden)
                        ELSE grp_x
            /\ grp_y' = IF dy # 0 THEN YSetter(grp_y, grp_y + dy, disp_sz[1], is_hidden)
                        ELSE grp_y
            /\ is_clicked' = ClickFlag(is_clicked, states, PYBADGE_BUTTON_A)
            /\ is_alt_clicked' = ClickFlag(is_alt_clicked, states, PYBADGE_BUTTON_B)
            /\ is_select_clicked' =
                   ClickFlag(is_select_clicked, states, PYBADGE_BUTTON_SELECT)
            /\ is_start_clicked' =
                   ClickFlag(is_start_clicked, states, PYBADGE_BUTTON_START)
    /\ UNCHANGED <<disp_sz, scale, speed, is_hidden, cursor_grp, grp_scale,
                   cursor_grp_tiles, cur_sprite, cursor_bitmap, display_grp>>
    /\ UNCHANGED <<board, center_x, center_y, phys>>
    /\ UNCHANGED <<deinitVars, debounceVars, pc>>
    /\ UNCHANGED otherVars

\* a call on the manager that raises before it changes anything
RaiseManager(name, error) ==
    /\ op' = name
    /\ err' = error
    /\ UNCHANGED cursorVars
    /\ UNCHANGED <<managerVars, pc>>
    /\ UNCHANGED otherVars

\* _pad_states once update() has fetched at most one event from the queue
Fetched ==
    IF events # <<>>
    THEN StoreButtonStates(pad_states, Head(events))
    ELSE pad_states

\* update() with the averaged readings sum_x / Samples and sum_y / Samples
\* on a joystick board
update_joystick(sum_x, sum_y) ==
    /\ board = "joystick"
    /\ mgr_event # "None"
    /\ UpdateWith(Fetched, JoyStep(sum_x, center_x, speed),
                  JoyStep(sum_y, center_y, speed))

\* CursorManager.update(); get_into(None) raises TypeError once deinit()
\* has cleared _event
update ==
    IF mgr_event = "None" THEN RaiseManager("update", "type_error")
    ELSE IF board = "dpad"
         THEN UpdateWith(Fetched, PadStepX(Fetched, speed), PadStepY(Fetched, speed))
         ELSE \E dx \in JoySteps(center_x, speed), dy \in JoySteps(center_y, speed) :
                  UpdateWith(Fetched, dx, dy)

\* DebouncedCursorManager.update() with the steps (dx, dy): the movement of
\* CursorManager.update(), then every Debouncer samples its bit of _pad_states
DebouncedUpdateWith(states, dx, dy) ==
    /\ pad_states' = states
    /\ events' = IF events # <<>> THEN Tail(events) ELSE events
    /\ op' = "update"
    /\ IF IsDeinited /\ (dx # 0 \/ dy # 0)
       THEN /\ err' = "deinited"
            /\ UNCHANGED <<grp_x, grp_y, debouncers>>
       ELSE /\ err' = "none"
            /\ grp_x' = IF dx # 0 THEN XSetter(grp_x, grp_x + dx, disp_sz[2], is_hidden)
                        ELSE grp_x
            /\ grp_y' = IF dy # 0 THEN YSetter(grp_y, grp_y + dy, disp_sz[1], is_hidden)
                        ELSE grp_y
            /\ debouncers' = [k \in DOMAIN debouncers |->
                                  DebouncerUpdate(debouncers[k], Held(states, k))]
    /\ UNCHANGED <<disp_sz, scale, speed, is_hidden, cursor_grp, grp_scale,
                   cursor_grp_tiles, cur_sprite, cursor_bitmap, display_grp>>
    /\ UNCHANGED <<board, center_x, center_y, phys>>
    /\ UNCHANGED clickVars
    /\ UNCHANGED <<deinitVars, debounced, a_stable, all_short, pc>>
    /\ UNCHANGED otherVars

\* debounced_update that records the buttons and moves nothing
debounced_update_NoMove ==
    IF mgr_event = "None" THEN RaiseManager("update", "type_error")
    ELSE DebouncedUpdateWith(Fetched, 0, 0)

debounced_update ==
    IF mgr_event = "None" THEN RaiseManager("update", "type_error")
    ELSE IF board = "dpad"
         THEN DebouncedUpdateWith(Fetched, PadStepX(Fetched, speed),
                                  PadStepY(Fetched, speed))
         ELSE \E dx \in JoySteps(center_x, speed), dy \in JoySteps(center_y, speed) :
                  DebouncedUpdateWith(Fetched, dx, dy)

\* an update() that also shows the cursor
manager_update_Shows == IF debounced THEN debounced_update ELSE show

\* update() of the manager that was constructed
manager_update == IF debounced THEN debounced_update ELSE update

\* CursorManager.deinit(), inherited unchanged by DebouncedCursorManager:
\* _pad.deinit(), then Cursor.deinit(), then _cursor = None and _event = None;
\* an exception of Cursor.deinit() leaves the two fields as they were
manager_deinit ==
    IF ManagerIsDeinited THEN RaiseManager("manager_deinit", "manager_deinited")
    ELSE LET r == DeinitRemove(display_grp, cursor_grp) IN
         /\ pad_live' = FALSE
         /\ op' = "manager_deinit"
         /\ IF IsDeinited
            THEN /\ err' = "deinited"
                 /\ UNCHANGED <<scale, display_grp, mgr_cursor, mgr_event>>
            ELSE /\ scale' = None
                 /\ display_grp' = r.grp
                 /\ err' = r.err
                 /\ mgr_cursor' = IF r.err = "none" THEN "None" ELSE mgr_cursor
                 /\ mgr_event' = IF r.err = "none" THEN "None" ELSE mgr_event
         /\ UNCHANGED <<disp_sz, speed, is_hidden, cursor_grp, grp_x, grp_y,
                        grp_scale, cursor_grp_tiles, cur_sprite, cursor_bitmap>>
         /\ UNCHANGED <<board, center_x, center_y, pad_states, events, phys>>
         /\ UNCHANGED clickVars
         /\ UNCHANGED <<debounceVars, pc>>
         /\ UNCHANGED otherVars

\* the clock read by the Debouncers advances by one tick
Tick ==
    /\ debounced
    /\ debouncers' = [k \in DOMAIN debouncers |->
                          [debouncers[k] EXCEPT !.age = Older(@)]]
    /\ a_stable' = Older(a_stable)
    /\ all_short' = (all_short /\ Older(a_stable) < debounce_interval)
    /\ UNCHANGED cursorVars
    /\ UNCHANGED <<board, center_x, center_y, pad_states, events, phys>>
    /\ UNCHANGED clickVars
    /\ UNCHANGED <<deinitVars, debounced, pc, op, err>>
    /\ UNCHANGED otherVars

\* update() has fetched every event queued so far
Polled == events = <<>>

\* the Cursor driven by its setters and by a CursorManager polling a board
\* whose directions are worked (the other buttons do not move the cursor),
\* each key event fetched before the next one arrives
Next ==
    \/ \E x_val \in Values : x_setter(x_val)
    \/ \E y_val \in Values : y_setter(y_val)
    \/ \E s \in Speeds : speed_setter(s)
    \/ \E s \in Scales : scale_setter(s)
    \/ hide
    \/ show
    \/ \E k \in DirectionKeys : Polled /\ KeyPressed(k)
    \/ \E k \in DirectionKeys : Polled /\ KeyReleased(k)
    \/ update

Spec == Init /\ [][Next]_vars

\* every method of the Cursor, with update() polling an idle board
NextCursor ==
    \/ \E x_val \in Values : x_setter(x_val)
    \/ \E y_val \in Values : y_setter(y_val)
    \/ \E s \in Speeds : speed_setter(s)
    \/ \E s \in Scales : scale_setter(s)
    \/ hide
    \/ show
    \/ \E bmp \in Bitmaps : cursor_bitmap_setter(bmp)
    \/ \E bmp \in Bitmaps : generate_cursor(bmp)
    \/ deinit
    \/ update

SpecCursor == Init /\ [][NextCursor]_vars

\* no cursor_bitmap assignment is under way
Idle == pc = "idle"

\* the Cursor's methods called one after another, a cursor_bitmap assignment
\* running statement by statement
NextSprite ==
    \/ \E bmp \in Bitmaps : cursor_bitmap_store(bmp)
    \/ cursor_bitmap_remove
    \/ cursor_bitmap_tilegrid
    \/ cursor_bitmap_append
    \/ \E x_val \in Values : Idle /\ x_setter(x_val)
    \/ \E s \in Scales : Idle /\ scale_setter(s)
    \/ Idle /\ hide
    \/ Idle /\ show
    \/ \E bmp \in Bitmaps : Idle /\ generate_cursor(bmp)
    \/ Idle /\ deinit

SpecSprite == Init /\ [][NextSprite]_vars

\* the buttons whose presses the managers report
ClickKeys == {PYBADGE_BUTTON_A, PYBADGE_BUTTON_B, PYBADGE_BUTTON_SELECT,
              PYBADGE_BUTTON_START}

\* a Cursor on the smallest display, where no step moves it
InitManager == Init /\ disp_sz = <<0, 0>> /\ scale = 1 /\ speed = 1

\* a CursorManager polling a board whose four buttons are worked, events
\* queueing up between updates, with hide(), Cursor.deinit() and the
\* manager's deinit()
NextManager ==
    \/ \E k \in ClickKeys : KeyPressed(k)
    \/ \E k \in ClickKeys : KeyReleased(k)
    \/ update
    \/ hide
    \/ deinit
    \/ manager_deinit

SpecManager == InitManager /\ [][NextManager]_vars

\* the two buttons worked on the board of a debounced manager
DebouncedKeys == {PYBADGE_BUTTON_A, PYBADGE_BUTTON_B}

\* a DebouncedCursorManager and its Cursor on the smallest display, where no
\* step moves it
InitDebounced ==
    /\ debounced = TRUE
    /\ Construct
    /\ disp_sz = <<0, 0>>
    /\ scale = 1
    /\ speed = 1

\* a DebouncedCursorManager polled while the clock runs and buttons A and B
\* are worked, events queueing up between updates
NextDebounced ==
    \/ \E k \in DebouncedKeys : KeyPressed(k)
    \/ \E k \in DebouncedKeys : KeyReleased(k)
    \/ Tick
    \/ manager_update

SpecDebounced == InitDebounced /\ [][NextDebounced]_vars

\* the buttons worked on the board polled by SpecUpdate
UpdateKeys == {PYBADGE_BUTTON_A, PYBADGE_BUTTON_RIGHT, PYBADGE_BUTTON_DOWN}

\* update() and deinit() of either manager, on every display and every
\* Cursor state reached by hide(), show() and Cursor.deinit(), each key
\* event fetched before the next one arrives
NextUpdate ==
    \/ \E k \in UpdateKeys : Polled /\ KeyPressed(k)
    \/ \E k \in UpdateKeys : Polled /\ KeyReleased(k)
    \/ manager_update
    \/ hide
    \/ show
    \/ deinit
    \/ manager_deinit

SpecUpdate == InitManagers /\ [][NextUpdate]_vars

\* ================================================================ claims
Live == ~IsDeinited

Attached == cursor_grp \in Range(display_grp)

Layers == Count(display_grp, cursor_grp)

Visible == ~is_hidden

\* the reject-not-clip rule of the specification, for one coordinate
Rejecting(cur, v, limit) == IF v < 0 \/ v > limit THEN cur ELSE v

\* C1: on a display of width W >= 1 and height H >= 1 the position satisfies
\* 0 <= x <= W-1 and 0 <= y <= H-1 in every state reachable by x/y
\* assignments of any value, speed/scale assignments, show()/hide() and
\* CursorManager.update() calls.
C1_PositionInBounds ==
    /\ 0 <= grp_x /\ grp_x <= disp_sz[2]
    /\ 0 <= grp_y /\ grp_y <= disp_sz[1]

\* an update() with right held on a visible cursor whose step would have left
\* the display: x cannot have been reached by a step, and x + speed is outside
C1_Witness ==
    /\ op = "update" /\ err = "none" /\ Visible
    /\ board = "dpad" /\ Held(pad_states, PYBADGE_BUTTON_RIGHT)
    /\ grp_x - speed < 0 /\ grp_x + speed > disp_sz[2]

\* C2: for a visible live Cursor an assignment x = v leaves x unchanged when
\* v < 0 or v > W-1 and sets x = v otherwise (y likewise against H-1), never
\* changes the other axis, and moves apply the rule call by call, in order:
\* from 160 on a 320 wide display three +5 moves give 175 and a +200 move
\* then leaves 175.
C2_RejectNotClip ==
    /\ LET W == 320
           x1 == XSetter(160, 160 + 5, W - 1, FALSE)
           x2 == XSetter(x1, x1 + 5, W - 1, FALSE)
           x3 == XSetter(x2, x2 + 5, W - 1, FALSE)
           x4 == XSetter(x3, x3 + 200, W - 1, FALSE)
       IN  x3 = 175 /\ x4 = 175
    /\ LET H == 240
           y1 == YSetter(120, 120 + 5, H - 1, FALSE)
           y2 == YSetter(y1, y1 + 200, H - 1, FALSE)
       IN  y1 = 125 /\ y2 = 125
    /\ [][/\ \A v \in Values :
                (Live /\ Visible /\ x_setter(v)) =>
                    /\ grp_x' = Rejecting(grp_x, v, disp_sz[2])
                    /\ grp_y' = grp_y
          /\ \A v \in Values :
                (Live /\ Visible /\ y_setter(v)) =>
                    /\ grp_y' = Rejecting(grp_y, v, disp_sz[1])
                    /\ grp_x' = grp_x]_vars

\* a y assignment on a visible cursor that kept y away from both edges
C2_Witness ==
    /\ op = "y" /\ err = "none" /\ Visible
    /\ grp_y > 0 /\ grp_x > 0 /\ grp_x < disp_sz[2]

\* C3: for a live Cursor, also right after construction with
\* is_hidden = True, the cursor's layer is in the display group if and only
\* if the cursor is not hidden.
C3_LayerIffVisible == Live => (Attached <=> Visible)

\* C4: show() on a Cursor that already is visible raises no error and leaves
\* exactly one cursor layer in the display group.
C4_ShowIdempotent ==
    [][(Live /\ Visible /\ Attached /\ show) =>
           (err' = "none" /\ Layers' = 1)]_vars

\* C5: hide() on a Cursor whose layer already is detached raises no error
\* and leaves the cursor hidden with its layer absent from the display group.
C5_HideIdempotent ==
    [][(Live /\ is_hidden /\ ~Attached /\ hide) =>
           (err' = "none" /\ is_hidden' /\ ~Attached')]_vars

\* C6: for a visible live Cursor at (x, y), hide() followed by show() gives
\* a visible cursor whose layer is attached exactly once, still at (x, y).
C6_HideThenShow ==
    [][/\ (Live /\ Visible /\ hide) =>
              /\ err' = "none" /\ is_hidden' /\ ~Attached'
              /\ grp_x' = grp_x /\ grp_y' = grp_y
       /\ (op = "hide" /\ err = "none" /\ show) =>
              /\ err' = "none" /\ Visible' /\ Layers' = 1
              /\ grp_x' = grp_x /\ grp_y' = grp_y]_vars

\* a show() that re-attached the layer of a cursor away from the origin
C6_Witness ==
    /\ op = "show" /\ err = "none" /\ Visible /\ Layers = 1
    /\ grp_x > 0 /\ grp_y > 0

\* C7: while the Cursor is hidden every x or y assignment, in range or not,
\* and every CursorManager.update() leaves the position unchanged.
C7_HiddenFrozen ==
    [][(is_hidden /\ (update \/ (\E v \in Values : x_setter(v) \/ y_setter(v))))
           => (grp_x' = grp_x /\ grp_y' = grp_y)]_vars

\* an update() with down held on a hidden cursor that had room to move down
C7_Witness ==
    /\ op = "update" /\ err = "none" /\ is_hidden
    /\ board = "dpad" /\ Held(pad_states, PYBADGE_BUTTON_DOWN)
    /\ grp_y + speed <= disp_sz[1]

\* C8: with cursor_speed > 0 at construction, speed > 0 in every reachable
\* state; on a live Cursor assigning s <= 0 leaves speed unchanged and
\* assigning s > 0 sets speed = s.
C8_SpeedPositive ==
    /\ speed > 0
    /\ [][/\ speed' > 0
          /\ \A s \in Speeds :
                (Live /\ speed_setter(s)) =>
                    speed' = IF s <= 0 THEN speed ELSE s]_vars

\* a speed assignment on a live cursor, the speed now at its largest
C8_Witness == op = "speed" /\ err = "none" /\ Live /\ speed = MaxSpeed

\* C9: for a live Cursor constructed with scale > 0, scale > 0 and the
\* layer's scale equals the Cursor's scale in every reachable state;
\* assigning s <= 0 changes neither, assigning s > 0 sets both to s.
C9_ScaleInSync ==
    /\ Live => (scale > 0 /\ grp_scale = scale)
    /\ [][/\ Live' => (scale' > 0 /\ grp_scale' = scale')
          /\ \A s \in Scales :
                (Live /\ scale_setter(s)) =>
                    /\ scale' = (IF s <= 0 THEN scale ELSE s)
                    /\ grp_scale' = (IF s <= 0 THEN grp_scale ELSE s)]_vars

\* a scale assignment on a live cursor whose layer group was regenerated
C9_Witness ==
    /\ op = "scale" /\ err = "none" /\ Live
    /\ scale = MaxScale /\ cursor_grp > 1

\* C10: after deinit() every further operation on the Cursor (x, y, speed,
\* scale, hide/show, cursor_bitmap, generate_cursor, deinit) fails with the
\* deinitialized error and changes neither the cursor nor the display group.
C10_UseAfterDeinit ==
    [][(IsDeinited /\
        \/ \E v \in Values : x_setter(v) \/ y_setter(v)
        \/ \E s \in Speeds : speed_setter(s)
        \/ \E s \in Scales : scale_setter(s)
        \/ hide
        \/ show
        \/ \E bmp \in Bitmaps : cursor_bitmap_setter(bmp) \/ generate_cursor(bmp)
        \/ deinit)
           => (err' = "deinited" /\ UNCHANGED cursorVars)]_vars

\* C11: deinit() called on a live Cursor, visible or hidden, completes without
\* error and leaves the cursor layer absent from the display group and the
\* Cursor marked invalid.
C11_DeinitDetaches ==
    [][(Live /\ deinit) =>
           (err' = "none" /\ ~Attached' /\ IsDeinited')]_vars

\* the recorded state of button k goes from not pressed to pressed
NewPress(k) == ~Held(pad_states, k) /\ Held(pad_states', k)

\* C12: in the non-debounced CursorManager a click flag (is_clicked,
\* is_alt_clicked, is_select_clicked, is_start_clicked) is True after an
\* update() only when its button went from not pressed to pressed since the
\* previous update(), so a press held across consecutive update() calls sets
\* the flag after exactly one of them.
C12_ClickOncePerPress ==
    [][(update /\ err' = "none") =>
           /\ is_clicked' => NewPress(PYBADGE_BUTTON_A)
           /\ is_alt_clicked' => NewPress(PYBADGE_BUTTON_B)
           /\ is_select_clicked' => NewPress(PYBADGE_BUTTON_SELECT)
           /\ is_start_clicked' => NewPress(PYBADGE_BUTTON_START)]_vars

\* C13: when update() returns, _pad_states shows every button as it is at
\* call time, pressed or not, also when several edge events were queued
\* since the previous update().
C13_NetButtonState ==
    [][(update /\ err' = "none") =>
           \A k \in Keys : Held(pad_states', k) <=> k \in phys]_vars

\* the step the D-pad rule asks for: the first direction held, if any
FirstHeld(states, first, second, spd) ==
    IF Held(states, first) THEN spd
    ELSE IF Held(states, second) THEN 0 - spd
    ELSE 0

\* the position after a requested step d, under the rules of C2 and C7
Stepped(cur, d, limit) ==
    IF d = 0 \/ is_hidden THEN cur ELSE Rejecting(cur, cur + d, limit)

\* C14: on a D-pad board one update() requests, from the recorded button
\* state, x + speed if right is held, else x - speed if left is held, else
\* no x move, and y - speed if up is held, else y + speed if down is held,
\* else no y move; a rejected move on one axis does not stop the other, and
\* each coordinate changes by 0 or by exactly speed.
C14_DpadStep ==
    [][(board = "dpad" /\ Live /\ update) =>
           LET dx == FirstHeld(pad_states', PYBADGE_BUTTON_RIGHT,
                               PYBADGE_BUTTON_LEFT, speed)
               dy == 0 - FirstHeld(pad_states', PYBADGE_BUTTON_UP,
                                   PYBADGE_BUTTON_DOWN, speed)
           IN  /\ grp_x' = Stepped(grp_x, dx, disp_sz[2])
               /\ grp_y' = Stepped(grp_y, dy, disp_sz[1])
               /\ grp_x' - grp_x \in {0 - speed, 0, speed}
               /\ grp_y' - grp_y \in {0 - speed, 0, speed}]_vars

\* an update() with right and up held on a visible cursor at the top edge:
\* the move up is rejected, the cursor is away from the left edge
C14_Witness ==
    /\ op = "update" /\ err = "none" /\ Visible /\ board = "dpad"
    /\ Held(pad_states, PYBADGE_BUTTON_RIGHT)
    /\ Held(pad_states, PYBADGE_BUTTON_UP)
    /\ grp_y - speed < 0 /\ grp_x >= speed

\* the step of C15 for an averaged reading sum / Samples around centre c
DeadzoneStep(sum, c, spd) ==
    IF sum - Samples * c > Samples * 1000 THEN spd
    ELSE IF Samples * c - sum > Samples * 1000 THEN 0 - spd
    ELSE 0

\* C15: on a joystick board center_x / center_y stay at the readings sampled
\* at construction, and one update() moves an axis by +speed when its
\* averaged reading r has r > center + 1000, by -speed when
\* r < center - 1000, and not at all when
\* center - 1000 <= r <= center + 1000.
C15_JoystickDeadzone ==
    /\ board = "joystick" => (center_x = AdcRest /\ center_y = AdcRest)
    /\ [][/\ board = "joystick" =>
                 \A sx \in JoySums(center_x), sy \in JoySums(center_y) :
                     (Live /\ update_joystick(sx, sy)) =>
                         /\ grp_x' = Stepped(grp_x, DeadzoneStep(sx, center_x, speed),
                                             disp_sz[2])
                         /\ grp_y' = Stepped(grp_y, DeadzoneStep(sy, center_y, speed),
                                             disp_sz[1])
          /\ UNCHANGED <<center_x, center_y>>]_vars

\* an update() on a joystick board that left a visible cursor away from the
\* origin on both axes
C15_Witness ==
    /\ op = "update" /\ err = "none" /\ Visible /\ board = "joystick"
    /\ grp_x > 0 /\ grp_y > 0

\* C18: once CursorManager.deinit() has completed, a second deinit() and any
\* update() fail with the manager's deinitialized error, fetch no queued key
\* event and change neither _pad_states, the click flags nor the cursor.
C18_ManagerUseAfterDeinit ==
    [][(ManagerIsDeinited /\ (manager_deinit \/ update)) =>
           /\ err' = "manager_deinited"
           /\ UNCHANGED <<events, pad_states>>
           /\ UNCHANGED clickVars
           /\ UNCHANGED cursorVars]_vars

\* C16: in a DebouncedCursorManager a raw button A signal whose every stable
\* period is shorter than debounce_interval never makes is_clicked (rose) or
\* released (fell) True after an update(); a press held for at least
\* debounce_interval and then released for at least debounce_interval gives
\* is_clicked after exactly one update() and later released after exactly
\* one update().  The formula is the first sentence: an update() reports an
\* edge of A only if some stable period of A has reached debounce_interval.
C16_DebounceProperty ==
    [][(debounced /\ manager_update /\ err' = "none") =>
           ((Rose(debouncers'[PYBADGE_BUTTON_A]) \/ Fell(debouncers'[PYBADGE_BUTTON_A]))
                => ~all_short)]_vars

C19_UpdateFrame ==
    [][manager_update =>
           UNCHANGED <<disp_sz, is_hidden, speed, scale, grp_scale, cursor_bitmap,
                       cur_sprite, cursor_grp_tiles, cursor_grp, display_grp>>]_vars

\* an update() of a debounced manager that saw button A pressed and left the
\* cursor away from the origin
C19_Witness ==
    /\ debounced /\ op = "update" /\ err = "none"
    /\ debouncers[PYBADGE_BUTTON_A].unstable
    /\ grp_x > 0 /\ grp_y > 0

AllDisplays ==
    DisplaySizes \cup {[width |-> 0, height |-> 0],
                       [width |-> 0, height |-> MaxH],
                       [width |-> MaxW, height |-> 0]}

\* a Cursor built on any display, then a CursorManager built on any board
InitConstruct ==
    /\ debounced = FALSE
    /\ ConstructOn(AllDisplays, AllBoards)
    /\ NoButtons
    /\ NoGlyph
    /\ TwinStart

\* the Cursor is positioned by its caller and, where a manager was built, by
\* the manager's update()
NextConstruct ==
    \/ \E v \in Values : x_setter(v)
    \/ \E v \in Values : y_setter(v)
    \/ PadCreated(board) /\ update

SpecConstruct == InitConstruct /\ [][NextConstruct]_vars

\* C21: constructing a Cursor on a display whose width or height is zero
\* fails with a configuration error and attaches no layer to the display
\* group.
C21_ZeroSizeRejected ==
    (op = "init" /\ (disp_sz[1] < 0 \/ disp_sz[2] < 0)) =>
        (err = "config_error" /\ display_grp = <<>>)

\* C27: constructing a CursorManager fails, before any input source is
\* created, exactly when the board has neither BUTTON_CLOCK nor JOYSTICK_X;
\* on a board with a scheme and the button shift register it succeeds with
\* the four click flags False and every button recorded as released.
C27_ConstructionNeedsScheme ==
    op = "init" =>
        /\ (err # "none" /\ ~pad_live /\ ~joystick_live) <=>
               (~HasClock(board) /\ ~HasJoystick(board))
        /\ ((HasClock(board) \/ HasJoystick(board)) /\ HasClock(board)) =>
               /\ err = "none"
               /\ pad_live
               /\ ~is_clicked /\ ~is_alt_clicked
               /\ ~is_select_clicked /\ ~is_start_clicked
               /\ pad_states = 0
               /\ events = <<>>

\* a manager was asked for on a board with neither scheme
C27_Witness ==
    /\ op = "init" /\ board = "none"
    /\ err = "attribute_error" /\ ~pad_live /\ ~joystick_live

\* ------------------------------------------- the button-aware CursorManager
\* the keys of its _pad_btns, as its _init_hardware fills it for the board
ButtonPadBtns(b) ==
    IF HasClock(b) /\ ~HasJoystick(b)
    THEN {PYBADGE_BUTTON_LEFT, PYBADGE_BUTTON_RIGHT, PYBADGE_BUTTON_UP,
          PYBADGE_BUTTON_DOWN, PYBADGE_BUTTON_A, PYBADGE_BUTTON_B}
    ELSE {PYBADGE_BUTTON_A, PYBADGE_BUTTON_B}

\* the value of get_pressed() when the buttons of ks were pressed
RECURSIVE Mask(_)
Mask(ks) ==
    IF ks = {} THEN 0
    ELSE LET k == CHOOSE e \in ks : TRUE IN Pow2(k) + Mask(ks \ {k})

\* the values get_pressed() gives: up to MaxHeld of the six buttons at once
PressedValues ==
    {Mask(ks) : ks \in {q \in SUBSET ButtonPadBtns("dpad") : Cardinality(q) <= MaxHeld}}

\* Button.contains(point): the rectangle's bounds, both edges included
Contains(b, px, py) ==
    /\ b.x <= px /\ px <= b.x + b.width
    /\ b.y <= py /\ py <= b.y + b.height

\* the loop of _check_cursor_click: the first target holding the point, as
\* a position in the list counted from 1, and 0 when there is none
FirstContaining(targets, px, py) ==
    LET hits == {i \in 1..Len(targets) : Contains(targets[i], px, py)}
    IN  IF hits = {} THEN 0 ELSE CHOOSE i \in hits : \A j \in hits : i <= j

\* the targets handed to the manager: two rectangles sharing the point (1, 0)
Target1 == [x |-> 0, y |-> 0, width |-> 1, height |-> 0]
Target2 == [x |-> 1, y |-> 0, width |-> 1, height |-> 1]
TargetLists == {<<>>, <<Target1, Target2>>, <<Target2, Target1>>}

\* the step its _check_cursor_movement asks for on the x axis
ButtonStepX(p, spd) ==
    IF Held(p, PYBADGE_BUTTON_RIGHT) THEN spd
    ELSE IF Held(p, PYBADGE_BUTTON_LEFT) THEN 0 - spd
    ELSE 0

\* the step its _check_cursor_movement asks for on the y axis
ButtonStepY(p, spd) ==
    IF Held(p, PYBADGE_BUTTON_UP) THEN 0 - spd
    ELSE IF Held(p, PYBADGE_BUTTON_DOWN) THEN spd
    ELSE 0

\* a call of its update() that raises: what it changed up to there stays
ButtonRaise(error, held) ==
    /\ err' = error
    /\ ret' = None
    /\ is_held' = held
    /\ UNCHANGED <<grp_x, grp_y, btn_clicked, selected>>

\* update() of the button-aware manager, get_pressed() giving p
button_update(p) ==
    /\ op' = "button_update"
    /\ pressed' = p
    /\ IF PYBADGE_BUTTON_UP \notin ButtonPadBtns(board)
       THEN ButtonRaise("key_error", is_held)
       ELSE LET dx == ButtonStepX(p, speed)
                dy == ButtonStepY(p, speed)
                nx == IF dx # 0 THEN XSetter(grp_x, grp_x + dx, disp_sz[2], is_hidden)
                      ELSE grp_x
                ny == IF dy # 0 THEN YSetter(grp_y, grp_y + dy, disp_sz[1], is_hidden)
                      ELSE grp_y
                release == /\ is_held
                           /\ ~Held(p, PYBADGE_BUTTON_A)
                           /\ ~Held(p, PYBADGE_BUTTON_B)
                hit == FirstContaining(btns, nx, ny)
            IN  IF IsDeinited /\ (dx # 0 \/ dy # 0)
                THEN ButtonRaise("deinited", is_held)
                ELSE IF IsDeinited /\ btns # <<>> /\ Held(p, PYBADGE_BUTTON_A)
                THEN ButtonRaise("deinited", TRUE)
                ELSE /\ err' = "none"
                     /\ grp_x' = nx
                     /\ grp_y' = ny
                     /\ is_held' = IF btns # <<>> /\ Held(p, PYBADGE_BUTTON_A) THEN TRUE
                                   ELSE IF release THEN FALSE
                                   ELSE is_held
                     /\ IF btns # <<>> /\ Held(p, PYBADGE_BUTTON_A) /\ hit # 0
                        THEN /\ btn_clicked' = hit
                             /\ selected' = [selected EXCEPT ![hit] = TRUE]
                             /\ ret' = hit - 1
                        ELSE /\ btn_clicked' = IF release /\ btns # <<>> THEN Len(btns)
                                               ELSE btn_clicked
                             /\ selected' = IF release THEN [i \in 1..Len(btns) |-> FALSE]
                                            ELSE selected
                             /\ ret' = None
    /\ UNCHANGED <<disp_sz, scale, speed, is_hidden, cursor_grp, grp_scale,
                   cursor_grp_tiles, cur_sprite, cursor_bitmap, display_grp>>
    /\ UNCHANGED <<managerVars, pc>>
    /\ UNCHANGED <<joystick_live, btns, glyphVars, twinVars>>

\* a Cursor of speed 1 and scale 1 and the button-aware manager built on it
\* with a list of targets, none selected
InitButtons ==
    /\ debounced = FALSE
    /\ ConstructOn({[width |-> MaxW, height |-> MaxH]}, Boards)
    /\ scale = 1
    /\ speed = 1
    /\ btns \in TargetLists
    /\ btn_clicked = None
    /\ is_held = FALSE
    /\ selected = [i \in 1..Len(btns) |-> FALSE]
    /\ ret = None
    /\ pressed = 0
    /\ NoGlyph
    /\ TwinStart

\* the button-aware manager polled with every value of the pad, its cursor
\* hidden and shown by the caller
NextButtons ==
    \/ \E p \in PressedValues : button_update(p)
    \/ hide
    \/ show

SpecButtons == InitButtons /\ [][NextButtons]_vars

\* an update() of the button-aware manager
ButtonUpdated == \E p \in PressedValues : button_update(p)

\* the positions, counted from 1, of the targets holding the cursor
Hits == {i \in 1..Len(btns) : Contains(btns[i], grp_x, grp_y)}

\* the targets of the scenario
ScenarioTargets == <<[x |-> 0, y |-> 0, width |-> 50, height |-> 50],
                     [x |-> 100, y |-> 100, width |-> 50, height |-> 50]>>

\* C22: hit-testing in the button-aware manager: an update() that returns
\* an index i saw A pressed, target i holds the cursor and no earlier target
\* does; an update() with A pressed and some target holding the cursor
\* returns the index of the first such target (targets (0,0,50,50) and
\* (100,100,50,50) with the cursor at (120,120) give 1); every other
\* update() returns None.
C22_HitTest ==
    /\ FirstContaining(ScenarioTargets, 120, 120) - 1 = 1
    /\ [][ButtonUpdated =>
              /\ ret' # None =>
                     /\ Held(pressed', PYBADGE_BUTTON_A)
                     /\ (ret' + 1) \in Hits'
                     /\ \A j \in Hits' : ret' + 1 <= j
              /\ (Held(pressed', PYBADGE_BUTTON_A) /\ Hits' # {}) =>
                     /\ ret' # None
                     /\ (ret' + 1) \in Hits'
                     /\ \A j \in Hits' : ret' + 1 <= j]_vars

\* C23: in the button-aware manager, after any sequence of update() calls
\* at most one target has selected == True.
C23_OneSelected ==
    Cardinality({i \in 1..Len(selected) : selected[i]}) <= 1

\* C24: in the button-aware manager, after any update() in which button A
\* is not pressed no target has selected == True, whatever the state of
\* button B.
C24_ReleaseClears ==
    [][(ButtonUpdated /\ ~Held(pressed', PYBADGE_BUTTON_A)) =>
           \A i \in 1..Len(selected') : ~selected'[i]]_vars

\* ------------------------------------------------------- the default glyph
\* the side of the bitmap _default_cursor_bitmap() creates
GlyphSize == 20

\* the pixels of the bitmap, as <<x, y>>
Pixels == (0..(GlyphSize - 1)) \X (0..(GlyphSize - 1))

\* FillStop one pixel short
FillStop_Short(j) == GlyphSize - j - 1

\* the end of range(j + 1, bmp.height - j), itself left out
FillStop(j) == GlyphSize - j

\* FlatTrail one column to the right
FlatTrail_Shifted(i, k) == <<i - k + 1, 15 - k>>

\* the k-th pixel the last loop writes for i: (i, 15), then (i - 1, 14),
\* (i - 2, 13), (i - 3, 12), (i - 4, 11)
FlatTrail(i, k) == <<i - k, 15 - k>>

\* the statement that follows the body of the loop over j
AfterDiag(j) ==
    IF j + 1 < 15 THEN <<"diag", j + 1, 0>> ELSE <<"bottom_left", 0, 1>>

\* what no glyph step changes
GlyphFrame ==
    /\ UNCHANGED cursorVars
    /\ UNCHANGED <<managerVars, pc, op, err>>
    /\ UNCHANGED <<joystick_live, buttonVars, twinVars>>

\* bmp = displayio.Bitmap(20, 20, 3): every pixel 0
glyph_new ==
    /\ glyph_pc[1] = "idle"
    /\ glyph' = [p \in Pixels |-> 0]
    /\ glyph_pc' = <<"left", 0, 0>>
    /\ GlyphFrame

\* for i in range(0, bmp.height): bmp[0, i] = 2
glyph_left ==
    /\ glyph_pc[1] = "left"
    /\ LET i == glyph_pc[3]
       IN  /\ glyph' = [glyph EXCEPT ![<<0, i>>] = 2]
           /\ glyph_pc' = IF i + 1 < GlyphSize THEN <<"left", 0, i + 1>>
                          ELSE <<"diag", 1, 0>>
    /\ GlyphFrame

\* for j in range(1, 15): bmp[j, j] = 2
glyph_diag ==
    /\ glyph_pc[1] = "diag"
    /\ LET j == glyph_pc[2]
       IN  /\ glyph' = [glyph EXCEPT ![<<j, j>>] = 2]
           /\ glyph_pc' = IF j + 1 < FillStop(j) THEN <<"fill", j, j + 1>>
                          ELSE AfterDiag(j)
    /\ GlyphFrame

\* for i in range(j + 1, bmp.height - j): bmp[j, i] = 1
glyph_fill ==
    /\ glyph_pc[1] = "fill"
    /\ LET j == glyph_pc[2]
           i == glyph_pc[3]
       IN  /\ glyph' = [glyph EXCEPT ![<<j, i>>] = 1]
           /\ glyph_pc' = IF i + 1 < FillStop(j) THEN <<"fill", j, i + 1>>
                          ELSE AfterDiag(j)
    /\ GlyphFrame

\* for i in range(1, 5): bmp[i, bmp.height - i] = 2
glyph_bottom_left ==
    /\ glyph_pc[1] = "bottom_left"
    /\ LET i == glyph_pc[3]
       IN  /\ glyph' = [glyph EXCEPT ![<<i, GlyphSize - i>>] = 2]
           /\ glyph_pc' = IF i + 1 < 5 THEN <<"bottom_left", 0, i + 1>>
                          ELSE <<"flat", 0, 5>>
    /\ GlyphFrame

\* for i in range(5, 15): bmp[i, 15] = 2, then the four pixels trailing it
\* set to 1, one statement at a time; the last one is followed by the return
glyph_flat ==
    /\ glyph_pc[1] = "flat"
    /\ LET k == glyph_pc[2]
           i == glyph_pc[3]
       IN  /\ glyph' = [glyph EXCEPT ![FlatTrail(i, k)] = IF k = 0 THEN 2 ELSE 1]
           /\ glyph_pc' = IF k < 4 THEN <<"flat", k + 1, i>>
                          ELSE IF i + 1 < 15 THEN <<"flat", 0, i + 1>>
                          ELSE <<"done", 0, 0>>
    /\ GlyphFrame

\* a Cursor of any construction and the call of _default_cursor_bitmap()
\* that built its bitmap, about to start
InitGlyph ==
    /\ debounced = FALSE
    /\ ConstructOn(DisplaySizes, Boards)
    /\ NoButtons
    /\ NoGlyph
    /\ TwinStart

\* _default_cursor_bitmap() statement by statement
NextGlyph ==
    \/ glyph_new
    \/ glyph_left
    \/ glyph_diag
    \/ glyph_fill
    \/ glyph_bottom_left
    \/ glyph_flat

SpecGlyph == InitGlyph /\ [][NextGlyph]_vars

\* _default_cursor_bitmap() has returned its bitmap
GlyphDone == glyph_pc[1] = "done"

\* a canvas with every pixel transparent
Blank == [p \in Pixels |-> 0]

\* the left edge: column 0, all rows, outline
LeftEdge(c) == [p \in Pixels |-> IF p[1] = 0 THEN 2 ELSE c[p]]

\* for each j in [1, 15): (j, j) outline, (j, i) fill for i in (j, 20 - j)
Wedge(c) ==
    [p \in Pixels |->
        IF p[1] \in 1..14 /\ p[2] = p[1] THEN 2
        ELSE IF p[1] \in 1..14 /\ p[1] < p[2] /\ p[2] < 20 - p[1] THEN 1
        ELSE c[p]]

\* for i in [1, 5): (i, 20 - i) outline
BottomLeft(c) ==
    [p \in Pixels |-> IF p[1] \in 1..4 /\ p[2] = 20 - p[1] THEN 2 ELSE c[p]]

\* for i in [5, 15): (i, 15) outline and (i-1, 14), (i-2, 13), (i-3, 12),
\* (i-4, 11) fill
FlatEdge(c) ==
    [p \in Pixels |->
        IF p[1] \in 5..14 /\ p[2] = 15 THEN 2
        ELSE IF \E k \in 1..4 : (p[1] + k) \in 5..14 /\ p[2] = 15 - k THEN 1
        ELSE c[p]]

\* the four steps applied in their order
Canvas == FlatEdge(BottomLeft(Wedge(LeftEdge(Blank))))

\* C25: the default glyph is, for every Cursor, pixel for pixel the 20x20
\* canvas over the indices 0, 1, 2 obtained by applying the four steps in
\* their order, every pixel no step writes being 0.
C25_GlyphIsCanvas ==
    GlyphDone =>
        /\ DOMAIN glyph = Pixels
        /\ \A p \in Pixels : glyph[p] \in 0..2
        /\ glyph = Canvas

\* the finished glyph, with the wedge filled, the tail shaded and the far
\* corner left transparent
C25_Witness ==
    /\ GlyphDone
    /\ glyph[<<1, 18>>] = 1 /\ glyph[<<1, 11>>] = 1 /\ glyph[<<19, 19>>] = 0

\* C26: in the finished default glyph every pixel (j, j) with 1 <= j < 15
\* and every pixel of column 0 has the outline colour, index 2.
C26_OutlineStands ==
    GlyphDone =>
        /\ \A j \in 1..14 : glyph[<<j, j>>] = 2
        /\ \A i \in 0..(GlyphSize - 1) : glyph[<<0, i>>] = 2

\* the finished glyph, outlined at both ends of the diagonal and of column 0
C26_Witness ==
    /\ GlyphDone
    /\ glyph[<<1, 1>>] = 2 /\ glyph[<<14, 14>>] = 2
    /\ glyph[<<0, 0>>] = 2 /\ glyph[<<0, 19>>] = 2

\* ------------------------------------------------- click flags and events
\* a CursorManager polled while its four buttons are worked, events queueing
\* up between the update() calls
NextClicks ==
    \/ \E k \in ClickKeys : KeyPressed(k)
    \/ \E k \in ClickKeys : KeyReleased(k)
    \/ update

SpecClicks == InitManager /\ [][NextClicks]_vars

\* C28: in the non-debounced CursorManager no click flag is True after two
\* consecutive update() calls: a flag that is True when update() is called is
\* False when it returns, whatever events arrived in between, and each flag
\* is determined by its own previous value and its own button alone.
C28_FlagClearsNextUpdate ==
    [][(update /\ err' = "none") =>
           /\ is_clicked => ~is_clicked'
           /\ is_alt_clicked => ~is_alt_clicked'
           /\ is_select_clicked => ~is_select_clicked'
           /\ is_start_clicked => ~is_start_clicked'
           /\ is_clicked' = (~is_clicked /\ Held(pad_states', PYBADGE_BUTTON_A))
           /\ is_alt_clicked' =
                  (~is_alt_clicked /\ Held(pad_states', PYBADGE_BUTTON_B))
           /\ is_select_clicked' =
                  (~is_select_clicked /\ Held(pad_states', PYBADGE_BUTTON_SELECT))
           /\ is_start_clicked' =
                  (~is_start_clicked /\ Held(pad_states', PYBADGE_BUTTON_START))]_vars

\* an update() that returned with A still recorded as held and its flag
\* cleared, while B's flag was set by the same call
C28_Witness ==
    /\ op = "update" /\ err = "none"
    /\ Held(pad_states, PYBADGE_BUTTON_A) /\ ~is_clicked
    /\ Held(pad_states, PYBADGE_BUTTON_B) /\ is_alt_clicked

\* C30: in the non-debounced CursorManager, after every update() a click
\* flag that is True has its button recorded as held in _pad_states; no flag
\* is ever True while its button is recorded as released.
C30_FlagImpliesHeld ==
    ~debounced =>
        /\ is_clicked => Held(pad_states, PYBADGE_BUTTON_A)
        /\ is_alt_clicked => Held(pad_states, PYBADGE_BUTTON_B)
        /\ is_select_clicked => Held(pad_states, PYBADGE_BUTTON_SELECT)
        /\ is_start_clicked => Held(pad_states, PYBADGE_BUTTON_START)

\* the two buttons worked while the manager is polled
PolledKeys == {PYBADGE_BUTTON_A, PYBADGE_BUTTON_B}

\* a key is pressed or released
KeyEvent == \E k \in PolledKeys : KeyPressed(k) \/ KeyReleased(k)

\* a CursorManager whose buttons A and B are worked, events queueing up
\* between the update() calls
NextPolling ==
    \/ \E k \in PolledKeys : KeyPressed(k)
    \/ \E k \in PolledKeys : KeyReleased(k)
    \/ update

\* the same, the main loop calling update() again and again
SpecPolling == InitManager /\ [][NextPolling]_vars /\ WF_vars(update)

\* the queue is empty and _pad_states shows every button as it is
Synced ==
    /\ events = <<>>
    /\ \A k \in Keys : Held(pad_states, k) <=> k \in phys

\* C29: update() takes at most one queued key event per call, and an event
\* (k, pressed) sets bit k of _pad_states to pressed and leaves every other
\* bit as it was; so once no new key events are produced, with update()
\* called again and again, eventually the queue is empty and _pad_states
\* equals the physical state of every button, for good.
C29_OneEventPerUpdate ==
    /\ [][update =>
              IF events = <<>> \/ err' = "type_error"
              THEN UNCHANGED <<events, pad_states>>
              ELSE /\ events' = Tail(events)
                   /\ \A j \in Keys :
                          Held(pad_states', j) <=>
                              IF j = Head(events).key_number
                              THEN Head(events).pressed
                              ELSE Held(pad_states, j)]_vars
    /\ (<>[][~KeyEvent]_vars) => <>[]Synced

\* an update() that fetched the last queued event, with A and B both held
\* and recorded as held
C29_Witness ==
    /\ op = "update" /\ err = "none"
    /\ phys = {PYBADGE_BUTTON_A, PYBADGE_BUTTON_B}
    /\ Synced

\* ------------------------------------------------ presses, deinit, twins
\* update() is about to fetch the press event of button k
FetchesPress(k) ==
    /\ events # <<>>
    /\ Head(events).key_number = k
    /\ Head(events).pressed

\* C31: no press is missed by the non-debounced CursorManager: press and
\* release events of a key alternating and none being lost, an update() that
\* fetches a press event of button A returns with is_clicked True; likewise
\* for B, Select and Start.
C31_NoPressMissed ==
    [][(~debounced /\ update /\ err' = "none") =>
           /\ FetchesPress(PYBADGE_BUTTON_A) => is_clicked'
           /\ FetchesPress(PYBADGE_BUTTON_B) => is_alt_clicked'
           /\ FetchesPress(PYBADGE_BUTTON_SELECT) => is_select_clicked'
           /\ FetchesPress(PYBADGE_BUTTON_START) => is_start_clicked']_vars

\* C32: CursorManager.deinit() is all-or-nothing: whatever the state of the
\* bound Cursor, either it returns with the input source released, the Cursor
\* deinitialized and the manager invalid, or it raises and leaves the input
\* source, the manager and the Cursor exactly as they were.
C32_DeinitAllOrNothing ==
    [][manager_deinit =>
           \/ /\ err' = "none"
              /\ ~pad_live'
              /\ IsDeinited'
              /\ ManagerIsDeinited'
           \/ /\ err' # "none"
              /\ UNCHANGED deinitVars
              /\ UNCHANGED cursorVars]_vars

\* a display one column wider than the largest of DisplaySizes, so that a
\* speed of 2 divides neither W - 1 nor H - 1
StepDisplays == {[width |-> MaxW + 1, height |-> MaxH]}

\* a Cursor at (0, 0) on that display, of any speed, and its CursorManager
InitSteps ==
    /\ debounced = FALSE
    /\ ConstructOn(StepDisplays, Boards)
    /\ scale = 1
    /\ NoButtons
    /\ NoGlyph
    /\ TwinStart

\* the cursor moved by update() alone, hidden and shown by the caller, the
\* directions worked on the D-pad or the stick deflected
NextSteps ==
    \/ \E k \in DirectionKeys : Polled /\ KeyPressed(k)
    \/ \E k \in DirectionKeys : Polled /\ KeyReleased(k)
    \/ update
    \/ hide
    \/ show

SpecSteps == InitSteps /\ [][NextSteps]_vars

\* C34: a cursor that starts at (0, 0), keeps its speed s > 0 and is moved
\* only by update() has both coordinates a multiple of s, at most
\* s * floor((W-1)/s) and s * floor((H-1)/s); the last column (row) is
\* reached only when s divides W-1 (H-1).
C34_StepGrid ==
    /\ grp_x % speed = 0
    /\ grp_y % speed = 0
    /\ grp_x <= speed * (disp_sz[2] \div speed)
    /\ grp_y <= speed * (disp_sz[1] \div speed)
    /\ grp_x = disp_sz[2] => disp_sz[2] % speed = 0
    /\ grp_y = disp_sz[1] => disp_sz[1] % speed = 0

\* an update() with right held that left the cursor short of the last
\* column, the next step being out of range
C34_Witness ==
    /\ op = "update" /\ err = "none" /\ Visible
    /\ Held(pad_states, PYBADGE_BUTTON_RIGHT)
    /\ 0 < grp_x /\ grp_x < disp_sz[2] /\ grp_x + speed > disp_sz[2]

\* CursorManager.update() of the twin manager on a D-pad board: it fetches
\* the event at the head of its queue, which holds what the queue of the
\* DebouncedCursorManager holds, and moves its own cursor
twin_update ==
    /\ debounced
    /\ board = "dpad"
    /\ op # "twin_update"
    /\ LET st == IF events # <<>>
                 THEN StoreButtonStates(twin_states, Head(events))
                 ELSE twin_states
           dx == PadStepX(st, speed)
           dy == PadStepY(st, speed)
       IN  /\ twin_states' = st
           /\ IF IsDeinited /\ (dx # 0 \/ dy # 0)
              THEN /\ twin_err' = "deinited"
                   /\ UNCHANGED <<twin_x, twin_y>>
              ELSE /\ twin_err' = "none"
                   /\ twin_x' = IF dx # 0
                                THEN XSetter(twin_x, twin_x + dx, disp_sz[2], is_hidden)
                                ELSE twin_x
                   /\ twin_y' = IF dy # 0
                                THEN YSetter(twin_y, twin_y + dy, disp_sz[1], is_hidden)
                                ELSE twin_y
    /\ op' = "twin_update"
    /\ UNCHANGED cursorVars
    /\ UNCHANGED <<managerVars, pc, err>>
    /\ UNCHANGED <<joystick_live, buttonVars, glyphVars>>

\* both managers have made the same number of update() calls
InStep == op # "twin_update"

\* the buttons worked on the board the two managers poll
TwinKeys == {PYBADGE_BUTTON_RIGHT, PYBADGE_BUTTON_DOWN}

\* a DebouncedCursorManager and a CursorManager on a D-pad board, each with
\* a cursor of speed 1 at (0, 0) on the largest display
InitTwin ==
    /\ debounced = TRUE
    /\ Construct
    /\ board = "dpad"
    /\ disp_sz = <<MaxH - 1, MaxW - 1>>
    /\ scale = 1
    /\ speed = 1

\* the two managers updated in turn on the same key events, while the clock
\* of the Debouncers runs and both cursors are hidden and deinitialized
\* together
NextTwin ==
    \/ \E k \in TwinKeys : InStep /\ Polled /\ KeyPressed(k)
    \/ \E k \in TwinKeys : InStep /\ Polled /\ KeyReleased(k)
    \/ InStep /\ Tick
    \/ InStep /\ hide
    \/ InStep /\ deinit
    \/ twin_update
    \/ ~InStep /\ debounced_update

SpecTwin == InitTwin /\ [][NextTwin]_vars

\* C33: cursor movement is not debounced: on the same key events and
\* update() calls, with equal cursors, DebouncedCursorManager and
\* CursorManager have the same _pad_states and the same cursor position after
\* every update(), and raise alike, for every debounce_interval.
C33_SameMovement ==
    InStep =>
        /\ pad_states = twin_states
        /\ grp_x = twin_x
        /\ grp_y = twin_y
        /\ op = "update" => err = twin_err

\* both managers have moved their cursors away from the origin on a press
\* that the Debouncer of the right button has not yet accepted
C33_Witness ==
    /\ op = "update" /\ err = "none"
    /\ grp_x > 0 /\ twin_x = grp_x
    /\ Held(pad_states, PYBADGE_BUTTON_RIGHT)
    /\ ~debouncers[PYBADGE_BUTTON_RIGHT].debounced

====
